---- MODULE Spec2Model ----
(***************************************************************************)
(* Model of stock_picker/agent.py: the FinancialData record, the tool      *)
(* function get_financial_data and the demo entry point main().            *)
(*                                                                         *)
(* Python values are tagged records [k, n, s]: k is the Python type, n the *)
(* number (floats are kept in thousandths so that fractions such as a      *)
(* dividend yield of 0.015 are representable), s the text as a sequence of *)
(* pieces.  Texts are concatenated and searched piece by piece.            *)
(***************************************************************************)
EXTENDS Integers, Sequences, FiniteSets, TLC

VARIABLES pc, ticker, provided, info, financials_dict, exc, result,
          lookups, after,
          mainPc, apiKey, log, runtimeCalls, failedAt, mainExc, stream,
          final_response

fetchVars == <<pc, ticker, provided, info, financials_dict, exc, result,
               lookups, after>>
mainVars == <<mainPc, apiKey, log, runtimeCalls, failedAt, mainExc, stream,
          final_response>>
vars == <<pc, ticker, provided, info, financials_dict, exc, result,
          lookups, after,
          mainPc, apiKey, log, runtimeCalls, failedAt, mainExc, stream,
          final_response>>

(* ------------------------------ bounds --------------------------------- *)
NumVariants == 2
MaxOmitWithOddValue == 1
NumInvocations == 2
MaxEvents == 2

(* --------------------------- Python values ----------------------------- *)
NoneV == [k |-> "none", n |-> 0, s |-> <<>>]
StrV(s) == [k |-> "str", n |-> 0, s |-> s]
IntV(n) == [k |-> "int", n |-> n, s |-> <<>>]
FloatV(m) == [k |-> "float", n |-> m, s |-> <<>>]
ListV == [k |-> "list", n |-> 0, s |-> <<>>]

IsNone(v) == v.k = "none"

\* Python ==: an int and a float compare by numeric value.
PyEq(x, y) ==
    \/ x = y
    \/ x.k = "int" /\ y.k = "float" /\ x.n * 1000 = y.n
    \/ x.k = "float" /\ y.k = "int" /\ x.n = y.n * 1000

Contains(s, sub) ==
    \E i \in 0..(Len(s) - Len(sub)) : SubSeq(s, i + 1, i + Len(sub)) = sub

(* ------------------------- class FinancialData ------------------------- *)
DataFields == <<"company_name", "sector", "industry", "market_cap", "pe_ratio",
                "forward_pe", "dividend_yield", "price_to_book",
                "fifty_two_week_high", "fifty_two_week_low", "average_volume",
                "short_summary">>

ModelFields == DataFields \o <<"error">>

DataFieldSet == {DataFields[i] : i \in 1..Len(DataFields)}

ModelFieldSet == DataFieldSet \cup {"error"}

FieldType ==
    [f \in ModelFieldSet |->
        IF f \in {"company_name", "sector", "industry", "short_summary", "error"}
        THEN "str"
        ELSE IF f = "average_volume" THEN "int" ELSE "float"]

\* The provider attribute each data field is read from (info.get(...)).
AttrOf ==
    [f \in DataFieldSet |->
        CASE f = "company_name" -> "longName"
          [] f = "sector" -> "sector"
          [] f = "industry" -> "industry"
          [] f = "market_cap" -> "marketCap"
          [] f = "pe_ratio" -> "trailingPE"
          [] f = "forward_pe" -> "forwardPE"
          [] f = "dividend_yield" -> "dividendYield"
          [] f = "price_to_book" -> "priceToBook"
          [] f = "fifty_two_week_high" -> "fiftyTwoWeekHigh"
          [] f = "fifty_two_week_low" -> "fiftyTwoWeekLow"
          [] f = "average_volume" -> "averageVolume"
          [] f = "short_summary" -> "longBusinessSummary"]

Attrs == {AttrOf[f] : f \in DataFieldSet}

FieldOfAttr(a) == CHOOSE f \in DataFieldSet : AttrOf[f] = a

DigitVal ==
    ("0" :> 0) @@ ("1" :> 1) @@ ("2" :> 2) @@ ("3" :> 3) @@ ("4" :> 4) @@
    ("5" :> 5) @@ ("6" :> 6) @@ ("7" :> 7) @@ ("8" :> 8) @@ ("9" :> 9)

IsDigits(s) == Len(s) > 0 /\ \A i \in 1..Len(s) : s[i] \in DOMAIN DigitVal

RECURSIVE ParseInt(_)
ParseInt(s) ==
    IF s = <<>> THEN 0
    ELSE ParseInt(SubSeq(s, 1, Len(s) - 1)) * 10 + DigitVal[s[Len(s)]]

\* Validation of one Optional[...] field: None is kept, a value of the
\* declared type is kept, a convertible value is converted, others rejected.
ValidateField(ftype, v) ==
    CASE v.k = "none" -> [ok |-> TRUE, val |-> NoneV]
      [] v.k # "none" /\ ftype = "str" ->
            IF v.k = "str" THEN [ok |-> TRUE, val |-> v]
            ELSE [ok |-> FALSE, val |-> NoneV]
      [] v.k # "none" /\ ftype = "float" ->
            IF v.k = "float" THEN [ok |-> TRUE, val |-> v]
            ELSE IF v.k = "int" THEN [ok |-> TRUE, val |-> FloatV(v.n * 1000)]
            ELSE IF v.k = "str" /\ IsDigits(v.s)
                 THEN [ok |-> TRUE, val |-> FloatV(ParseInt(v.s) * 1000)]
            ELSE [ok |-> FALSE, val |-> NoneV]
      [] v.k # "none" /\ ftype = "int" ->
            IF v.k = "int" THEN [ok |-> TRUE, val |-> v]
            ELSE IF v.k = "float" /\ v.n % 1000 = 0
                 THEN [ok |-> TRUE, val |-> IntV(v.n \div 1000)]
            ELSE IF v.k = "str" /\ IsDigits(v.s)
                 THEN [ok |-> TRUE, val |-> IntV(ParseInt(v.s))]
            ELSE [ok |-> FALSE, val |-> NoneV]

\* FinancialData(**kwargs): every field defaults to None; a rejected value
\* makes the construction raise a ValidationError naming the fields.
FinancialData(kwargs) ==
    LET given(f) == IF f \in DOMAIN kwargs THEN kwargs[f] ELSE NoneV
        bad == SelectSeq(ModelFields,
                         LAMBDA f : ~ValidateField(FieldType[f], given(f)).ok)
    IN  [ok  |-> bad = <<>>,
         rec |-> [f \in ModelFieldSet |-> ValidateField(FieldType[f], given(f)).val],
         exc |-> [cls |-> "ValidationError",
                  msg |-> <<ToString(Len(bad)),
                            " validation error for FinancialData">> \o bad]]

(* ------------------------- the data provider --------------------------- *)
Tickers == {<<"M", "S", "F", "T">>, <<"G">>}

NoExc == [cls |-> "", msg |-> <<>>]

NoInfo == [kind |-> "unset", keys |-> {}, val |-> [a \in Attrs |-> NoneV]]

\* stock.info that is not a mapping (None).
NoneInfo == [kind |-> "none", keys |-> {}, val |-> [a \in Attrs |-> NoneV]]

\* A well-typed value of attribute a in the v-th version of the market data.
GoodValue(a, v) ==
    LET t == FieldType[FieldOfAttr(a)]
    IN  CASE t = "str" -> StrV(<<a, ToString(v)>>)
          [] t = "int" -> IntV(100 + v)
          [] t = "float" -> FloatV(IF a = "dividendYield" THEN 10 + v ELSE 2500 + v)

\* What a provider may also put under a key.
OddValues ==
    {NoneV, IntV(7), StrV(<<"N/A">>), StrV(<<"4", "2">>), FloatV(1500), FloatV(2000), ListV}

DictInfo(keys, vals) ==
    [kind |-> "dict", keys |-> keys,
     val |-> [a \in Attrs |-> IF a \in keys THEN vals[a] ELSE NoneV]]

\* A bag without the attributes in om, every other one well typed.
CleanInfo(om, v) == DictInfo(Attrs \ om, [a \in Attrs |-> GoodValue(a, v)])

\* The same with the odd value x under attribute b.
OddInfo(om, b, x, v) ==
    DictInfo(Attrs \ om, [a \in Attrs |-> IF a = b THEN x ELSE GoodValue(a, v)])

ProviderErrors ==
    {[cls |-> "ConnectionError", msg |-> <<"Max retries exceeded">>],
     [cls |-> "Exception", msg |-> <<>>]}

Returns(i) == [raises |-> FALSE, exc |-> NoExc, info |-> i]

Raises(e) == [raises |-> TRUE, exc |-> e, info |-> NoInfo]

NoOutcome == [raises |-> FALSE, exc |-> NoExc, info |-> NoInfo]

SmallOmitSets == {om \in SUBSET Attrs : Cardinality(om) <= MaxOmitWithOddValue}

\* The answers used when several invocations run together.
ParOutcomes ==
    {Returns(CleanInfo({}, v)) : v \in 1..NumVariants}
    \cup {Returns(CleanInfo({"forwardPE"}, 1))}
    \cup {Returns(OddInfo({}, "trailingPE", StrV(<<"N/A">>), 1))}
    \cup {Returns(NoneInfo)}
    \cup {Raises([cls |-> "ConnectionError", msg |-> <<"Max retries exceeded">>])}

(* ------------------------ get_financial_data --------------------------- *)
Invocations == DOMAIN pc

\* Variant: the locals kept in one module-level place shared by all calls.
SharedSlot(p) == 1

\* Where the locals of invocation p live: its own frame.
Slot(p) == p

\* Variant: the answer of an earlier finished call for the same ticker is reused.
StockInfoCached(p, outcome) ==
    IF \E q \in DOMAIN pc : pc[q] = "done" /\ ticker[q] = ticker[p] /\ info[q].kind = "dict"
    THEN info[CHOOSE q \in DOMAIN pc :
                  pc[q] = "done" /\ ticker[q] = ticker[p] /\ info[q].kind = "dict"]
    ELSE outcome.info

\* The value of stock.info for invocation p: what the provider answered
\* to this invocation's own lookup.
StockInfo(p, outcome) == outcome.info

\* Variant: info.get(a, 0).
InfoGetZeroDefault(i, a) == IF a \in i.keys THEN i.val[a] ELSE IntV(0)

\* info.get(a): the value under the key, None when the key is missing;
\* an object without .get raises AttributeError.
InfoGet(i, a) == IF a \in i.keys THEN i.val[a] ELSE NoneV

\* Variant: the dividend yield converted to a percentage.
FinancialsDictPercent(i) ==
    [f \in DataFieldSet |->
        IF f = "dividend_yield" /\ InfoGet(i, AttrOf[f]).k = "float"
        THEN FloatV(InfoGet(i, AttrOf[f]).n * 100)
        ELSE InfoGet(i, AttrOf[f])]

FinancialsDict(i) == [f \in DataFieldSet |-> InfoGet(i, AttrOf[f])]

AttributeError ==
    [cls |-> "AttributeError",
     msg |-> <<"'NoneType' object has no attribute 'get'">>]

ExceptionClasses ==
    {"Exception", "ConnectionError", "AttributeError", "ValidationError"}

\* Variant: except ValidationError.
OnRaiseNarrow(p, e) == IF e.cls = "ValidationError" THEN "handler" ELSE "raised"

\* Variant: a failed lookup is attempted again before giving up.
OnRaiseRetry(p, e) ==
    IF pc[p] = "lookup" /\ lookups[p] < 2 THEN "lookup"
    ELSE IF e.cls \in ExceptionClasses THEN "handler" ELSE "raised"

\* except Exception: where control goes when the try block raises e.
OnRaise(p, e) == IF e.cls \in ExceptionClasses THEN "handler" ELSE "raised"

\* f"Could not retrieve data for {ticker}. Error: {str(e)}"
ErrorText(t, e) ==
    <<"Could not retrieve data for ">> \o t \o <<". Error: ">> \o e.msg

\* Variant: the error is added to the fields already read.
ErrorRecordKeepingData(p) ==
    [f \in ModelFieldSet |->
        IF f = "error" THEN StrV(ErrorText(ticker[p], exc[Slot(p)]))
        ELSE ValidateField(FieldType[f], financials_dict[Slot(p)][f]).val]

\* The record built by the except branch of invocation p.
ErrorRecord(p) ==
    FinancialData([f \in {"error"} |-> StrV(ErrorText(ticker[p], exc[Slot(p)]))]).rec

NoRecord == [f \in ModelFieldSet |-> NoneV]

Invoke(p) ==
    /\ pc[p] = "idle"
    /\ \E t \in Tickers : ticker' = [ticker EXCEPT ![p] = t]
    /\ after' = [after EXCEPT ![p] = {q \in Invocations : pc[q] = "done"}]
    /\ pc' = [pc EXCEPT ![p] = "lookup"]
    /\ UNCHANGED <<provided, info, financials_dict, exc, result, lookups>>
    /\ UNCHANGED mainVars

\* stock = yf.Ticker(ticker); info = stock.info, the provider answering o
Answer(p, o) ==
    /\ pc[p] = "lookup"
    /\ provided' = [provided EXCEPT ![p] = o]
    /\ IF o.raises
       THEN /\ exc' = [exc EXCEPT ![Slot(p)] = o.exc]
            /\ pc' = [pc EXCEPT ![p] = OnRaise(p, o.exc)]
            /\ UNCHANGED info
       ELSE /\ info' = [info EXCEPT ![Slot(p)] = StockInfo(p, o)]
            /\ pc' = [pc EXCEPT ![p] = "build"]
            /\ UNCHANGED exc
    /\ lookups' = [lookups EXCEPT ![p] = @ + 1]
    /\ UNCHANGED <<ticker, financials_dict, result, after>>
    /\ UNCHANGED mainVars

\* The lookup against every answer of the provider.
Lookup(p) ==
    /\ pc[p] = "lookup"
    /\ \/ \E om \in SUBSET Attrs : \E v \in 1..NumVariants :
             Answer(p, Returns(CleanInfo(om, v)))
       \/ \E om \in SmallOmitSets : \E b \in Attrs \ om : \E x \in OddValues :
             \E v \in 1..NumVariants : Answer(p, Returns(OddInfo(om, b, x, v)))
       \/ Answer(p, Returns(NoneInfo))
       \/ \E e \in ProviderErrors : Answer(p, Raises(e))

LookupPar(p) == \E o \in ParOutcomes : Answer(p, o)

\* financials_dict = {... info.get(...) ...}
Build(p) ==
    /\ pc[p] = "build"
    /\ IF info[Slot(p)].kind = "dict"
       THEN /\ financials_dict' =
                  [financials_dict EXCEPT ![Slot(p)] = FinancialsDict(info[Slot(p)])]
            /\ pc' = [pc EXCEPT ![p] = "construct"]
            /\ UNCHANGED exc
       ELSE /\ exc' = [exc EXCEPT ![Slot(p)] = AttributeError]
            /\ pc' = [pc EXCEPT ![p] = OnRaise(p, AttributeError)]
            /\ UNCHANGED financials_dict
    /\ UNCHANGED <<ticker, provided, info, result, lookups, after>>
    /\ UNCHANGED mainVars

\* return FinancialData(**financials_dict)
Construct(p) ==
    /\ pc[p] = "construct"
    /\ LET made == FinancialData(financials_dict[Slot(p)])
       IN  IF made.ok
           THEN /\ result' = [result EXCEPT ![p] = made.rec]
                /\ pc' = [pc EXCEPT ![p] = "done"]
                /\ UNCHANGED exc
           ELSE /\ exc' = [exc EXCEPT ![Slot(p)] = made.exc]
                /\ pc' = [pc EXCEPT ![p] = OnRaise(p, made.exc)]
                /\ UNCHANGED result
    /\ UNCHANGED <<ticker, provided, info, financials_dict, lookups, after>>
    /\ UNCHANGED mainVars

\* except Exception as e: return FinancialData(error=...)
Handler(p) ==
    /\ pc[p] = "handler"
    /\ result' = [result EXCEPT ![p] = ErrorRecord(p)]
    /\ pc' = [pc EXCEPT ![p] = "done"]
    /\ UNCHANGED <<ticker, provided, info, financials_dict, exc, lookups, after>>
    /\ UNCHANGED mainVars

MainIdle ==
    /\ mainPc = "idle"
    /\ apiKey = NoneV
    /\ log = <<>>
    /\ runtimeCalls = <<>>
    /\ failedAt = "none"
    /\ mainExc = NoExc
    /\ stream = <<>>
    /\ final_response = <<>>

FetchInit(n) ==
    /\ pc = [p \in 1..n |-> "idle"]
    /\ ticker = [p \in 1..n |-> <<>>]
    /\ provided = [p \in 1..n |-> NoOutcome]
    /\ info = [p \in 1..n |-> NoInfo]
    /\ financials_dict = [p \in 1..n |-> [f \in DataFieldSet |-> NoneV]]
    /\ exc = [p \in 1..n |-> NoExc]
    /\ result = [p \in 1..n |-> NoRecord]
    /\ lookups = [p \in 1..n |-> 0]
    /\ after = [p \in 1..n |-> {}]

\* One invocation against every provider answer.
Init == FetchInit(1) /\ MainIdle

Next ==
    \/ \E p \in Invocations : Invoke(p)
    \/ \E p \in Invocations : Lookup(p)
    \/ \E p \in Invocations : Build(p)
    \/ \E p \in Invocations : Construct(p)
    \/ \E p \in Invocations : Handler(p)

Spec == Init /\ [][Next]_vars

\* Several invocations, successive or overlapping.
InitPar == FetchInit(NumInvocations) /\ MainIdle

NextPar ==
    \/ \E p \in Invocations : Invoke(p)
    \/ \E p \in Invocations : LookupPar(p)
    \/ \E p \in Invocations : Build(p)
    \/ \E p \in Invocations : Construct(p)
    \/ \E p \in Invocations : Handler(p)

SpecPar == InitPar /\ [][NextPar]_vars

(* ------------------------------- main() -------------------------------- *)
\* os.environ.get("GOOGLE_API_KEY"): None when unset, else the text.
ApiKeys == {NoneV, StrV(<<>>), StrV(<<"key">>)}

\* Variant: os.environ.get("GOOGLE_API_KEY") is None.
KeyMissingNoneOnly(key) == key.k = "none"

\* not os.environ.get("GOOGLE_API_KEY")
KeyMissing(key) == key.k = "none" \/ (key.k = "str" /\ key.s = <<>>)

MissingKeyLines ==
    << <<"GOOGLE_API_KEY environment variable not set.">>,
       <<"Please set it to run the agent.">> >>

InitLine == <<"Initializing Stock Analysis Agentic System...">>

user_query == "Should I invest in Microsoft (MSFT) for the long term?"

Dashes == <<"------------------------------">>

CompleteLine == <<"Analysis Complete.">>

ErrorLinePrefix == "An error occurred during the agent run: "

RuntimeErrors ==
    {[cls |-> "Exception", msg |-> <<"model error">>],
     [cls |-> "ValueError", msg |-> <<"tool schema mismatch">>]}

\* Variant: the try block opened after run_async.
TryBlockLoopOnly == {"loop"}

\* The statements of main() that the try block encloses.
TryBlock == {"run", "loop"}

\* Where control goes when the statement at position step raises.
MainOnRaise(step) == IF step \in TryBlock THEN "handler" ELSE "raised"

EventTypes == {"thought", "tool_code", "tool_output", "message"}

EventParts == {<<>>, <<"a">>, <<"", "b">>}

\* hasType = FALSE: an event object without a .type attribute.
Events ==
    {[hasType |-> TRUE, type |-> t, parts |-> ps] :
        t \in EventTypes, ps \in EventParts}
    \cup {[hasType |-> FALSE, type |-> "", parts |-> <<"a">>]}

NoTypeError ==
    [cls |-> "AttributeError", msg |-> <<"'Event' object has no attribute 'type'">>]

\* The lines the loop body prints for one event, in order.
TypeLines(ev) ==
    CASE ev.type = "thought" -> << <<"Thinking: ", "thought">> >>
      [] ev.type = "tool_code" -> << <<"Calling Tool: ", "code">> >>
      [] ev.type = "tool_output" -> << <<"Tool Finished: ", "name">> >>
      [] OTHER -> <<>>

\* The parts with a non-empty text.
TextParts(ev) == SelectSeq(ev.parts, LAMBDA x : x # "")

PartLines(ev) == [i \in 1..Len(TextParts(ev)) |-> <<TextParts(ev)[i]>>]

\* if not os.environ.get("GOOGLE_API_KEY"): print; print; return
CheckKey ==
    /\ mainPc = "check"
    /\ IF KeyMissing(apiKey)
       THEN /\ log' = log \o MissingKeyLines
            /\ mainPc' = "returned"
       ELSE /\ log' = Append(log, InitLine)
            /\ mainPc' = "service"
    /\ UNCHANGED <<apiKey, runtimeCalls, failedAt, mainExc, stream, final_response>>
    /\ UNCHANGED fetchVars

\* A call into the runtime at position step: it returns, or it raises.
RuntimeCall(step, name, next) ==
    /\ mainPc = step
    /\ runtimeCalls' = Append(runtimeCalls, name)
    /\ \/ /\ mainPc' = next
          /\ UNCHANGED <<failedAt, mainExc>>
       \/ \E e \in RuntimeErrors :
             /\ failedAt' = step
             /\ mainExc' = e
             /\ mainPc' = MainOnRaise(step)

\* session_service = InMemorySessionService()
CreateService ==
    /\ RuntimeCall("service", "InMemorySessionService", "runner")
    /\ UNCHANGED <<apiKey, log, stream, final_response>>
    /\ UNCHANGED fetchVars

\* runner = Runner(...)
CreateRunner ==
    /\ RuntimeCall("runner", "Runner", "session")
    /\ UNCHANGED <<apiKey, log, stream, final_response>>
    /\ UNCHANGED fetchVars

\* session = await session_service.create_session(user_id="test_user")
CreateSession ==
    /\ RuntimeCall("session", "create_session", "announce")
    /\ UNCHANGED <<apiKey, log, stream, final_response>>
    /\ UNCHANGED fetchVars

\* the prints between the session and the try block
Announce ==
    /\ mainPc = "announce"
    /\ log' = log \o << <<"User Query: ", user_query>>, Dashes,
                        <<"ChiefInvestmentOfficer is starting the analysis...">> >>
    /\ mainPc' = "run"
    /\ UNCHANGED <<apiKey, runtimeCalls, failedAt, mainExc, stream, final_response>>
    /\ UNCHANGED fetchVars

\* events_async = runner.run_async(...); final_response = ""
RunAsync ==
    /\ RuntimeCall("run", "run_async", "loop")
    /\ final_response' = <<>>
    /\ UNCHANGED <<apiKey, log, stream>>
    /\ UNCHANGED fetchVars

\* async for event in events_async: one event is delivered and printed
ConsumeEvent ==
    /\ mainPc = "loop"
    /\ Len(stream) < MaxEvents
    /\ \E ev \in Events :
          /\ stream' = Append(stream, ev)
          /\ IF ev.hasType
             THEN /\ log' = log \o TypeLines(ev) \o PartLines(ev)
                  /\ final_response' = final_response \o TextParts(ev)
                  /\ UNCHANGED <<mainPc, failedAt, mainExc>>
             ELSE /\ failedAt' = "loop"
                  /\ mainExc' = NoTypeError
                  /\ mainPc' = MainOnRaise("loop")
                  /\ UNCHANGED <<log, final_response>>
    /\ UNCHANGED <<apiKey, runtimeCalls>>
    /\ UNCHANGED fetchVars

\* the stream raises instead of delivering an event
StreamFails ==
    /\ mainPc = "loop"
    /\ \E e \in RuntimeErrors :
          /\ failedAt' = "loop"
          /\ mainExc' = e
          /\ mainPc' = MainOnRaise("loop")
    /\ UNCHANGED <<apiKey, log, runtimeCalls, stream, final_response>>
    /\ UNCHANGED fetchVars

\* the stream ends: print the rule and "Analysis Complete."
StreamEnds ==
    /\ mainPc = "loop"
    /\ log' = log \o <<Dashes, CompleteLine>>
    /\ mainPc' = "returned"
    /\ UNCHANGED <<apiKey, runtimeCalls, failedAt, mainExc, stream, final_response>>
    /\ UNCHANGED fetchVars

\* except Exception as e: print(f"... An error occurred during the agent run: {e}")
MainHandler ==
    /\ mainPc = "handler"
    /\ log' = Append(log, <<ErrorLinePrefix>> \o mainExc.msg)
    /\ mainPc' = "returned"
    /\ UNCHANGED <<apiKey, runtimeCalls, failedAt, mainExc, stream, final_response>>
    /\ UNCHANGED fetchVars

InitMain ==
    /\ FetchInit(1)
    /\ mainPc = "check"
    /\ apiKey \in ApiKeys
    /\ log = <<>>
    /\ runtimeCalls = <<>>
    /\ failedAt = "none"
    /\ mainExc = NoExc
    /\ stream = <<>>
    /\ final_response = <<>>

NextMain ==
    \/ CheckKey
    \/ CreateService
    \/ CreateRunner
    \/ CreateSession
    \/ Announce
    \/ RunAsync
    \/ ConsumeEvent
    \/ StreamFails
    \/ StreamEnds
    \/ MainHandler

SpecMain == InitMain /\ [][NextMain]_vars

(* ----------------------------- properties ------------------------------ *)
Done(p) == pc[p] = "done"

AnyData(r) == \E f \in DataFieldSet : ~IsNone(r[f])

NoData(r) == \A f \in DataFieldSet : IsNone(r[f])

HasError(r) == ~IsNone(r["error"])

\* The provider answered invocation p with an attribute bag.
GotDict(p) == ~provided[p].raises /\ provided[p].info.kind = "dict"

Present(p) == provided[p].info.keys

Given(p, a) == provided[p].info.val[a]

DeclaredType(a) == FieldType[FieldOfAttr(a)]

\* Every attribute the answer holds has a value of its field's declared type.
WellTyped(p) == \A a \in Present(p) : Given(p, a).k = DeclaredType(a)

\* The answer holds a value the field's type rejects.
HasRejected(p) ==
    \E a \in Present(p) : ~ValidateField(DeclaredType(a), Given(p, a)).ok

\* The lookup, the attribute access or the construction of the record failed.
Failed(p) ==
    \/ provided[p].raises
    \/ ~provided[p].raises /\ provided[p].info.kind = "none"
    \/ GotDict(p) /\ HasRejected(p)

\* The message of the failure of invocation p.
FailureMsg(p) == IF provided[p].raises THEN provided[p].exc.msg ELSE exc[p].msg

\* C1: every returned record has data fields populated or the error
\* populated, never both and never neither.
C1_ExactlyOneOfDataOrError ==
    \A p \in Invocations :
        Done(p) => (AnyData(result[p]) /\ ~HasError(result[p]))
                   \/ (~AnyData(result[p]) /\ HasError(result[p]))

\* C2: when the lookup, the attribute access or the construction fails, the
\* returned record has a non-empty error that contains the ticker and the
\* failure's message, and all twelve data fields are absent.
C2_FailureGivesErrorOnly ==
    \A p \in Invocations :
        Done(p) /\ Failed(p) =>
            /\ result[p]["error"].k = "str"
            /\ result[p]["error"].s # <<>>
            /\ Contains(result[p]["error"].s, ticker[p])
            /\ Contains(result[p]["error"].s, FailureMsg(p))
            /\ NoData(result[p])

C2_Witness ==
    \E p \in Invocations :
        /\ Done(p) /\ GotDict(p) /\ HasRejected(p)
        /\ AnyData(financials_dict[p] @@ [f \in {"error"} |-> NoneV])
        /\ HasError(result[p])

\* C3: get_financial_data never leaves by raising: after a failure of the
\* lookup, the attribute access or the construction, control is in the
\* handler or the record has been returned, and every started invocation
\* that has not returned can take its next step.
C3_NeverRaises ==
    \A p \in Invocations :
        /\ pc[p] \in {"idle", "lookup", "build", "construct", "handler", "done"}
        /\ Failed(p) /\ pc[p] \notin {"build", "construct"} =>
              pc[p] \in {"handler", "done"}
        /\ pc[p] \in {"build", "construct", "handler"} =>
              ENABLED (Build(p) \/ Construct(p) \/ Handler(p))

C3_Witness ==
    \E p \in Invocations :
        Done(p) /\ exc[p].cls = "AttributeError" /\ HasError(result[p])

\* C4 as stated: when all twelve attributes are present, the error is absent
\* and every data field equals its attribute's value.
C4_AllPresentGivesAllFields ==
    \A p \in Invocations :
        Done(p) /\ GotDict(p) /\ Present(p) = Attrs =>
            /\ ~HasError(result[p])
            /\ \A f \in DataFieldSet : PyEq(result[p][f], Given(p, AttrOf[f]))

\* C4 amended: when all twelve attributes are present with values of their
\* fields' declared types, the error is absent and every data field is
\* exactly its attribute's value; dividend_yield is not scaled.
C4_WellTypedAllPresentGivesAllFields ==
    \A p \in Invocations :
        Done(p) /\ GotDict(p) /\ Present(p) = Attrs /\ WellTyped(p) =>
            /\ ~HasError(result[p])
            /\ \A f \in DataFieldSet : result[p][f] = Given(p, AttrOf[f])
            /\ result[p]["dividend_yield"].k = "float"
            /\ result[p]["dividend_yield"].n = Given(p, "dividendYield").n

C4_Witness ==
    \E p \in Invocations :
        /\ Done(p) /\ GotDict(p) /\ Present(p) = Attrs /\ WellTyped(p)
        /\ ~IsNone(result[p]["dividend_yield"])

\* C5 as stated: for every subset of omitted attributes the record has no
\* error, exactly the omitted attributes' fields are absent and every
\* present attribute's field holds the attribute's value.
C5_OmittedExactlyAbsent ==
    \A p \in Invocations :
        Done(p) /\ GotDict(p) =>
            /\ ~HasError(result[p])
            /\ \A f \in DataFieldSet :
                  /\ IsNone(result[p][f]) <=> AttrOf[f] \notin Present(p)
                  /\ AttrOf[f] \in Present(p) =>
                        PyEq(result[p][f], Given(p, AttrOf[f]))

\* C5 amended: the same, for answers whose present attributes all have a
\* value (not None) of the declared type of their field.
C5_WellTypedOmittedExactlyAbsent ==
    \A p \in Invocations :
        Done(p) /\ GotDict(p) /\ WellTyped(p) =>
            /\ ~HasError(result[p])
            /\ \A f \in DataFieldSet :
                  /\ IsNone(result[p][f]) <=> AttrOf[f] \notin Present(p)
                  /\ AttrOf[f] \in Present(p) =>
                        result[p][f] = Given(p, AttrOf[f])

C5_Witness ==
    \E p \in Invocations :
        /\ Done(p) /\ GotDict(p) /\ WellTyped(p)
        /\ "forwardPE" \notin Present(p)
        /\ IsNone(result[p]["forward_pe"])
        /\ ~IsNone(result[p]["pe_ratio"])

\* C6: with GOOGLE_API_KEY unset or empty, main prints the two lines of the
\* missing-credential message and returns; no call into the runtime is made.
C6_NoCallWithoutKey ==
    (apiKey = NoneV \/ apiKey = StrV(<<>>)) =>
        /\ runtimeCalls = <<>>
        /\ mainPc \in {"check", "returned"}
        /\ mainPc = "returned" => log = MissingKeyLines

C6_Witness == apiKey = StrV(<<>>) /\ mainPc = "returned" /\ Len(log) = 2

\* C7 as stated: a failure of the runtime at any step of main is caught by
\* the handler and logged; it does not leave main and "Analysis Complete."
\* is not printed.
C7_EveryRuntimeFailureCaught ==
    failedAt # "none" =>
        /\ mainPc \in {"handler", "returned"}
        /\ mainPc = "returned" =>
              /\ log[Len(log)] = <<ErrorLinePrefix>> \o mainExc.msg
              /\ \A i \in 1..Len(log) : log[i] # CompleteLine

\* C7 amended: a failure while starting the run (run_async) or while
\* consuming the event stream is caught by the handler and logged; it does
\* not leave main and "Analysis Complete." is not printed.
C7_RunFailureCaught ==
    failedAt \in {"run", "loop"} =>
        /\ mainPc \in {"handler", "returned"}
        /\ mainPc = "returned" =>
              /\ log[Len(log)] = <<ErrorLinePrefix>> \o mainExc.msg
              /\ \A i \in 1..Len(log) : log[i] # CompleteLine

C7_Witness ==
    /\ failedAt = "run"
    /\ mainPc = "returned"
    /\ runtimeCalls[Len(runtimeCalls)] = "run_async"

\* The record of invocation p carries the outcome of p's own lookup only.
OwnOutcome(p) ==
    /\ \A f \in DataFieldSet :
          ~IsNone(result[p][f]) =>
              /\ GotDict(p)
              /\ AttrOf[f] \in Present(p)
              /\ PyEq(result[p][f], Given(p, AttrOf[f]))
    /\ GotDict(p) /\ WellTyped(p) =>
          /\ ~HasError(result[p])
          /\ \A f \in DataFieldSet :
                AttrOf[f] \in Present(p) => ~IsNone(result[p][f])
    /\ Failed(p) => HasError(result[p]) /\ NoData(result[p])

\* C8: of two successive calls with the same ticker each returns the values
\* of its own lookup; nothing of the first call is reused by the second and
\* a failure of one does not change the other's result.
C8_SuccessiveCallsIndependent ==
    \A p \in Invocations : \A q \in Invocations :
        p \in after[q] /\ ticker[p] = ticker[q] /\ Done(p) /\ Done(q) =>
            OwnOutcome(p) /\ OwnOutcome(q)

C8_Witness ==
    \E p \in Invocations : \E q \in Invocations :
        /\ p \in after[q] /\ ticker[p] = ticker[q] /\ Done(p) /\ Done(q)
        /\ GotDict(p) /\ GotDict(q)
        /\ ~IsNone(result[p]["company_name"])
        /\ ~IsNone(result[q]["company_name"])
        /\ result[p]["company_name"] # result[q]["company_name"]

\* C9: every invocation issues exactly one lookup, also when it fails: the
\* count is one from the lookup on and is never more than one.
C9_OneLookupPerInvocation ==
    \A p \in Invocations :
        /\ lookups[p] <= 1
        /\ pc[p] \in {"build", "construct", "handler", "done"} => lookups[p] = 1
        /\ pc[p] \in {"idle", "lookup"} => lookups[p] = 0

C9_Witness ==
    \E p \in Invocations :
        Done(p) /\ provided[p].raises /\ HasError(result[p]) /\ lookups[p] = 1

\* The record get_financial_data(t) returns when it runs alone and the
\* provider answers o.
Alone(t, o) ==
    LET failure(e) == FinancialData([f \in {"error"} |-> StrV(ErrorText(t, e))]).rec
    IN  IF o.raises THEN failure(o.exc)
        ELSE IF o.info.kind # "dict" THEN failure(AttributeError)
        ELSE IF FinancialData(FinancialsDict(o.info)).ok
             THEN FinancialData(FinancialsDict(o.info)).rec
             ELSE failure(FinancialData(FinancialsDict(o.info)).exc)

\* C10: under every interleaving each invocation returns the record it
\* would return alone for its ticker and its lookup's outcome, and an error
\* message names the invocation's own ticker, not another one's.
C10_ParallelEqualsAlone ==
    \A p \in Invocations :
        Done(p) =>
            /\ result[p] = Alone(ticker[p], provided[p])
            /\ HasError(result[p]) =>
                  /\ Contains(result[p]["error"].s, ticker[p])
                  /\ \A q \in Invocations :
                        ticker[q] # <<>> /\ ticker[q] # ticker[p] =>
                            ~Contains(result[p]["error"].s, ticker[q])

C10_Witness ==
    \E p \in Invocations : \E q \in Invocations :
        /\ p # q /\ Done(p) /\ Done(q)
        /\ p \notin after[q] /\ q \notin after[p]
        /\ ticker[p] # ticker[q]
        /\ HasError(result[p]) /\ ~HasError(result[q])

====
